---- MODULE Spec2Model ----
(***************************************************************************)
(* Model of mcp-pdf: the PDFGenerator composition pipeline                 *)
(* (src/src/mcp_pdf/rendering/pdf_generator.py), the MCP tool handler that *)
(* drives it (src/src/mcp_pdf/server.py) and the pydantic models it reads  *)
(* (src/src/mcp_pdf/models).                                               *)
(*                                                                         *)
(* Texts are sequences of string tokens, so that a prefix put in front of  *)
(* a text is visible; the document title is a sequence of characters.      *)
(* Python's None is the token None for strings and a record with           *)
(* some = FALSE for lists.                                                 *)
(***************************************************************************)
EXTENDS Integers, Sequences, FiniteSets, TLC

\* ------------------------------------------------------------- bounds
MaxPages == 2
MaxRuns == 2
MaxClock == 2
MaxTitleLen == 2
MaxRefs == 2
MaxCodeLen == 3
MaxItems == 2
MaxDesc == 2

\* ------------------------------------------------------------- values
None == "<None>"
NoneL == [some |-> FALSE, val |-> <<>>]
SomeL(s) == [some |-> TRUE, val |-> s]
NoDesc == [tag |-> "none", str |-> "", list |-> <<>>]
DescStr(s) == [tag |-> "str", str |-> s, list |-> <<>>]
DescList(l) == [tag |-> "list", str |-> "", list |-> l]

\* Python truthiness of an Optional[str], an Optional[List] and of the
\* Union[str, List[str]] description.
TruthyS(x) == x # None /\ x # ""
TruthyL(x) == x.some /\ x.val # <<>>
TruthyD(d) == \/ d.tag = "str" /\ d.str # ""
              \/ d.tag = "list" /\ d.list # <<>>

\* A file reference: a URL or a local path (scheme = ""); tmp > 0 names the
\* tmp-th temporary file made by tempfile.NamedTemporaryFile.
NoRef == [scheme |-> None, rest |-> "", tmp |-> 0]
Url(r) == [scheme |-> "https://", rest |-> r, tmp |-> 0]
LocalPath(r) == [scheme |-> "", rest |-> r, tmp |-> 0]
TmpPath(n) == [scheme |-> "", rest |-> "/tmp/", tmp |-> n]
TruthyR(r) == r.scheme # None /\ ~(r.scheme = "" /\ r.rest = "")
\* b or a: the second reference first
OrRefSecondFirst(a, b) == IF TruthyR(b) THEN b ELSE a
OrRef(a, b) == IF TruthyR(a) THEN a ELSE b

\* The local image files of the environment.
LocalFiles == {"ok.png"}

PageType == {"title", "toc", "section", "content", "code", "diagram", "image",
             "mermaid", "summary", "references"}

\* The defaults of the theme models; line_spacing is the float 1.2.
ColorPalette == [primary |-> "#E3342F", secondary |-> "#1CCBD0", accent |-> "#F59E0B",
                 background |-> "#FFFFFF", text |-> "#111827", code_bg |-> "#F5F5F5"]
FontPalette == [heading |-> "Helvetica-Bold", body |-> "Helvetica", code |-> "Courier"]
ThemeSpec == [colors |-> ColorPalette, fonts |-> FontPalette, logo_path |-> None,
              title_font_size |-> 24, subtitle_font_size |-> 16, h1_font_size |-> 18,
              h2_font_size |-> 14, h3_font_size |-> 12, body_font_size |-> 10,
              code_font_size |-> 9, line_spacing |-> "1.2", paragraph_spacing |-> 6,
              page_width |-> 612, page_height |-> 792, margin_top |-> 72,
              margin_bottom |-> 72, margin_left |-> 72, margin_right |-> 72]
AltTheme == [ThemeSpec EXCEPT !.colors.primary = "#000000", !.body_font_size = 11]

ContentItem == [type |-> "text", text |-> None, items |-> NoneL, code |-> NoneL,
                language |-> None, image_path |-> NoRef, image_url |-> NoRef,
                caption |-> None, table_data |-> NoneL, table_headers |-> NoneL]

PageSpec(kind) ==
    [page_type |-> kind, title |-> None, subtitle |-> None, author |-> None,
     date |-> None, additional_info |-> None, entries |-> NoneL, content |-> NoneL,
     code |-> NoneL, language |-> None, line_numbers |-> FALSE,
     image_path |-> NoRef, image_url |-> NoRef, diagram_path |-> NoRef,
     diagram_url |-> NoRef, caption |-> None, description |-> NoDesc,
     mermaid_code |-> None, key_points |-> NoneL, conclusion |-> None,
     references |-> NoneL, style |-> "numbered"]

OutputSpec(fname, dir) == [filename |-> fname, directory |-> dir]
DocumentSpec(t, th, ps, out) == [title |-> t, theme |-> th, pages |-> ps, output |-> out]
\* ------------------------------------------------------------- layout primitives
Spacer(h) == [p |-> "Spacer", text |-> <<h>>, style |-> "", ref |-> NoRef, data |-> <<>>]
Paragraph(t, st) == [p |-> "Paragraph", text |-> t, style |-> st, ref |-> NoRef, data |-> <<>>]
PageBreak == [p |-> "PageBreak", text |-> <<>>, style |-> "", ref |-> NoRef, data |-> <<>>]
Image(path) == [p |-> "Image", text |-> <<>>, style |-> "", ref |-> path, data |-> <<>>]
Preformatted(t, st) == [p |-> "Preformatted", text |-> t, style |-> st, ref |-> NoRef, data |-> <<>>]
Table(rows) == [p |-> "Table", text |-> <<>>, style |-> "", ref |-> NoRef, data |-> rows]

\* The bullet glyph put in front of a bullet paragraph.
BulletGlyph == "(bullet) "

\* The outcomes of the environment for one asset: a download or render that
\* works, one that fails, a render that times out, a rendering tool that is
\* missing, and a file that reportlab's Image constructor rejects.
Outcomes == {"ok", "fail", "timeout", "notfound", "bad_image"}

\* The part of the generator and of the file system a composer works on:
\* self.story, self.downloaded_images, the temporary files on disk, the
\* number of temporary files made so far, and whether an exception is
\* propagating.
Put(g, prim) == IF g.raised THEN g ELSE [g EXCEPT !.story = Append(@, prim)]

\* self.story.append(Paragraph(text, style)): reportlab's Paragraph raises on
\* a text of None.
Say(g, prefix, s, st) ==
    IF g.raised THEN g
    ELSE IF s = None THEN [g EXCEPT !.raised = TRUE]
    ELSE [g EXCEPT !.story = Append(@, Paragraph(prefix \o <<s>>, st))]

RECURSIVE SayAll(_, _, _, _)
SayAll(g, prefix, items, st) ==
    IF items = <<>> THEN g
    ELSE SayAll(Say(g, prefix, Head(items), st), prefix, Tail(items), st)

IsUrl(path) == path.scheme \in {"http://", "https://"}
Exists(g, path) == IF path.tmp > 0 THEN path.tmp \in g.tmp ELSE path.rest \in LocalFiles

DownloadImage(g, url, out) ==
    LET n == g.next_tmp + 1
        made == [g EXCEPT !.tmp = @ \cup {n}, !.next_tmp = n]
    IN  IF out \in {"ok", "bad_image"}
        THEN [g |-> [made EXCEPT !.downloaded_images = Append(@, n)], path |-> TmpPath(n)]
        ELSE [g |-> made, path |-> NoRef]

\* RenderMermaidToPng that leaves the output file of a failed tool in place
RenderMermaidToPngKeepingOutput(g, mermaid_code, out) ==
    LET a == g.next_tmp + 1
        b == g.next_tmp + 2
        made == [g EXCEPT !.tmp = @ \cup {a, b}, !.next_tmp = b]
    IN  CASE out \in {"timeout", "notfound"} -> [g |-> made, path |-> NoRef]
          [] out = "fail" -> [g |-> [made EXCEPT !.tmp = @ \ {a}], path |-> NoRef]
          [] OTHER -> [g |-> [made EXCEPT !.tmp = @ \ {a},
                                          !.downloaded_images = Append(@, b)],
                       path |-> TmpPath(b)]

RenderMermaidToPng(g, mermaid_code, out) ==
    LET a == g.next_tmp + 1
        b == g.next_tmp + 2
        made == [g EXCEPT !.tmp = @ \cup {a, b}, !.next_tmp = b]
    IN  CASE out \in {"timeout", "notfound"} -> [g |-> made, path |-> NoRef]
          [] out = "fail" -> [g |-> [made EXCEPT !.tmp = @ \ {a, b}], path |-> NoRef]
          [] OTHER -> [g |-> [made EXCEPT !.tmp = @ \ {a},
                                          !.downloaded_images = Append(@, b)],
                       path |-> TmpPath(b)]

\* AddImage that logs a failed download and puts nothing in the story
AddImageSilent(g, image_path, caption, out) ==
    LET d == IF IsUrl(image_path) THEN DownloadImage(g, image_path, out)
             ELSE [g |-> g, path |-> image_path]
    IN  IF IsUrl(image_path) /\ ~TruthyR(d.path)
        THEN d.g
        ELSE IF ~Exists(d.g, d.path)
        THEN Say(d.g, <<"[Image not found: ", image_path.rest>>, "]", "body")
        ELSE IF out = "bad_image"
        THEN Say(d.g, <<"[Error loading image: ">>, "]", "body")
        ELSE IF TruthyS(caption)
        THEN Say(Put(Put(d.g, Image(d.path)), Spacer("0.1")), <<>>, caption, "caption")
        ELSE Put(d.g, Image(d.path))

AddImage(g, image_path, caption, out) ==
    LET d == IF IsUrl(image_path) THEN DownloadImage(g, image_path, out)
             ELSE [g |-> g, path |-> image_path]
    IN  IF IsUrl(image_path) /\ ~TruthyR(d.path)
        THEN Say(d.g, <<"[Failed to download image from: ", image_path.rest>>, "]", "body")
        ELSE IF ~Exists(d.g, d.path)
        THEN Say(d.g, <<"[Image not found: ", image_path.rest>>, "]", "body")
        ELSE IF out = "bad_image"
        THEN Say(d.g, <<"[Error loading image: ">>, "]", "body")
        ELSE IF TruthyS(caption)
        THEN Say(Put(Put(d.g, Image(d.path)), Spacer("0.1")), <<>>, caption, "caption")
        ELSE Put(d.g, Image(d.path))
\* ------------------------------------------------------------- code blocks and tables
LineNumberWidth == 4
DigitToken == <<"0", "1", "2", "3", "4", "5", "6", "7", "8", "9">>

RECURSIVE Digits(_)
Digits(n) == IF n < 10 THEN <<DigitToken[n + 1]>>
             ELSE Digits(n \div 10) \o <<DigitToken[(n % 10) + 1]>>

RECURSIVE PadLeft(_, _)
PadLeft(t, w) == IF Len(t) >= w THEN t ELSE PadLeft(<<" ">> \o t, w)

\* str.split('\n')
RECURSIVE Split(_, _)
Split(code, cur) ==
    IF code = <<>> THEN <<cur>>
    ELSE IF Head(code) = "\n" THEN <<cur>> \o Split(Tail(code), <<>>)
    ELSE Split(Tail(code), Append(cur, Head(code)))

\* '\n'.join(f"{i+1:4d}  {line}" for i, line in enumerate(lines))
RECURSIVE NumberedFrom(_, _)
NumberedFrom(lines, i) ==
    IF lines = <<>> THEN <<>>
    ELSE (IF i = 0 THEN <<>> ELSE <<"\n">>)
         \o PadLeft(Digits(i + 1), LineNumberWidth) \o <<" ", " ">> \o Head(lines)
         \o NumberedFrom(Tail(lines), i + 1)

AddCodeBlock(g, code, language, line_numbers) ==
    LET text == IF line_numbers THEN NumberedFrom(Split(code, <<>>), 0) ELSE code
    IN  Put(Put(g, Preformatted(text, "code")), Spacer("0.2"))

AddTable(g, data, headers) ==
    LET table_data == IF TruthyL(headers) THEN <<headers.val>> \o data ELSE data
    IN  Put(Put(g, Table(table_data)), Spacer("0.2"))

\* ------------------------------------------------------------- page composers
AddTitlePage(g, page) ==
    LET g1 == Say(Put(g, Spacer("2")), <<>>, page.title, "title")
        g2 == IF TruthyS(page.subtitle)
              THEN Put(Say(g1, <<>>, page.subtitle, "subtitle"), Spacer("0.3")) ELSE g1
        g3 == IF TruthyS(page.author) THEN Say(g2, <<>>, page.author, "body") ELSE g2
        g4 == IF TruthyS(page.date) THEN Say(g3, <<>>, page.date, "body") ELSE g3
        g5 == IF TruthyS(page.additional_info)
              THEN Say(Put(g4, Spacer("0.5")), <<>>, page.additional_info, "body") ELSE g4
    IN  Put(g5, PageBreak)

AddTocPage(g, page) ==
    LET t == IF TruthyS(page.title) THEN page.title ELSE "Table of Contents"
        g1 == Put(Say(g, <<>>, t, "h1"), Spacer("0.2"))
        g2 == IF TruthyL(page.entries) THEN SayAll(g1, <<>>, page.entries.val, "bullet") ELSE g1
    IN  Put(g2, PageBreak)

AddSectionPage(g, page) ==
    LET g1 == Say(Put(g, Spacer("2.5")), <<>>, page.title, "title")
        g2 == IF TruthyS(page.subtitle) THEN Say(g1, <<>>, page.subtitle, "subtitle") ELSE g1
    IN  Put(g2, PageBreak)

\* _add_content_item with a final else that raises
AddContentItemStrict(g, item, out) ==
    CASE item.type = "text" ->
           IF TruthyS(item.text) THEN Say(g, <<>>, item.text, "body") ELSE g
      [] item.type = "bullet" ->
           IF TruthyL(item.items) THEN SayAll(g, <<BulletGlyph>>, item.items.val, "bullet") ELSE g
      [] item.type = "image" ->
           IF TruthyR(item.image_path) \/ TruthyR(item.image_url)
           THEN AddImage(g, OrRef(item.image_path, item.image_url), item.caption, out) ELSE g
      [] item.type = "code" ->
           IF TruthyL(item.code) THEN AddCodeBlock(g, item.code.val, item.language, FALSE) ELSE g
      [] item.type = "table" ->
           IF TruthyL(item.table_data)
           THEN AddTable(g, item.table_data.val, item.table_headers) ELSE g
      [] OTHER -> [g EXCEPT !.raised = TRUE]

AddContentItem(g, item, out) ==
    CASE item.type = "text" ->
           IF TruthyS(item.text) THEN Say(g, <<>>, item.text, "body") ELSE g
      [] item.type = "bullet" ->
           IF TruthyL(item.items) THEN SayAll(g, <<BulletGlyph>>, item.items.val, "bullet") ELSE g
      [] item.type = "image" ->
           IF TruthyR(item.image_path) \/ TruthyR(item.image_url)
           THEN AddImage(g, OrRef(item.image_path, item.image_url), item.caption, out) ELSE g
      [] item.type = "code" ->
           IF TruthyL(item.code) THEN AddCodeBlock(g, item.code.val, item.language, FALSE) ELSE g
      [] item.type = "table" ->
           IF TruthyL(item.table_data)
           THEN AddTable(g, item.table_data.val, item.table_headers) ELSE g
      [] OTHER -> g

RECURSIVE AddContentItems(_, _, _)
AddContentItems(g, items, outs) ==
    IF items = <<>> \/ g.raised THEN g
    ELSE AddContentItems(AddContentItem(g, Head(items), Head(outs)), Tail(items), Tail(outs))

AddContentPage(g, page, outs) ==
    LET g1 == Put(Say(g, <<>>, page.title, "h1"), Spacer("0.2"))
        g2 == IF TruthyL(page.content) THEN AddContentItems(g1, page.content.val, outs) ELSE g1
    IN  Put(g2, PageBreak)

AddCodePage(g, page) ==
    LET g1 == Put(Say(g, <<>>, page.title, "h1"), Spacer("0.2"))
        g2 == IF TruthyL(page.code)
              THEN AddCodeBlock(g1, page.code.val, page.language, page.line_numbers) ELSE g1
    IN  Put(g2, PageBreak)

\* AddDescription that puts a list in one bullet paragraph
AddDescriptionJoined(g, description) ==
    IF ~TruthyD(description) THEN g
    ELSE IF description.tag = "list"
    THEN Say(Put(g, Spacer("0.2")), <<BulletGlyph>> \o SubSeq(description.list, 1,
                                                             Len(description.list) - 1),
             description.list[Len(description.list)], "bullet")
    ELSE Say(Put(g, Spacer("0.2")), <<>>, description.str, "body")

\* The description of a diagram or mermaid page: bullets for a list, one
\* paragraph for a string.
AddDescription(g, description) ==
    IF ~TruthyD(description) THEN g
    ELSE IF description.tag = "list"
    THEN SayAll(Put(g, Spacer("0.2")), <<BulletGlyph>>, description.list, "bullet")
    ELSE Say(Put(g, Spacer("0.2")), <<>>, description.str, "body")
AddDiagramPage(g, page, out) ==
    LET g1 == Put(Say(g, <<>>, page.title, "h1"), Spacer("0.2"))
        image_path == OrRef(page.diagram_path, page.diagram_url)
        g2 == IF g1.raised \/ ~TruthyR(image_path) THEN g1
              ELSE AddImage(g1, image_path, page.caption, out)
    IN  Put(AddDescription(g2, page.description), PageBreak)

\* '\n'.join(description) without its last element
RECURSIVE JoinFront(_)
JoinFront(l) == IF Len(l) <= 1 THEN <<>> ELSE <<Head(l), "\n">> \o JoinFront(Tail(l))

AddImagePage(g, page, out) ==
    LET g1 == Put(Say(g, <<>>, page.title, "h1"), Spacer("0.2"))
        image_path == OrRef(page.image_path, page.image_url)
        g2 == IF g1.raised \/ ~TruthyR(image_path) THEN g1
              ELSE AddImage(g1, image_path, page.caption, out)
        d == page.description
        g3 == IF ~TruthyD(d) THEN g2
              ELSE IF d.tag = "str" THEN Say(Put(g2, Spacer("0.2")), <<>>, d.str, "body")
              ELSE Say(Put(g2, Spacer("0.2")), JoinFront(d.list), d.list[Len(d.list)], "body")
    IN  Put(g3, PageBreak)

\* AddMermaidPage with a return right after the error paragraph
AddMermaidPageEarlyReturn(g, page, out) ==
    LET g1 == Put(Say(g, <<>>, page.title, "h1"), Spacer("0.2"))
        r == RenderMermaidToPng(g1, page.mermaid_code, out)
    IN  IF g1.raised \/ ~TruthyS(page.mermaid_code)
        THEN Put(AddDescription(g1, page.description), PageBreak)
        ELSE IF TruthyR(r.path)
        THEN Put(AddDescription(AddImage(r.g, r.path, page.caption, out), page.description),
                 PageBreak)
        ELSE Say(r.g, <<"[Failed to render Mermaid diagram. ">>,
                 "Please ensure @mermaid-js/mermaid-cli is installed]", "body")

AddMermaidPage(g, page, out) ==
    LET g1 == Put(Say(g, <<>>, page.title, "h1"), Spacer("0.2"))
        r == RenderMermaidToPng(g1, page.mermaid_code, out)
        g2 == IF g1.raised \/ ~TruthyS(page.mermaid_code) THEN g1
              ELSE IF TruthyR(r.path) THEN AddImage(r.g, r.path, page.caption, out)
              ELSE Say(r.g, <<"[Failed to render Mermaid diagram. ">>,
                       "Please ensure @mermaid-js/mermaid-cli is installed]", "body")
    IN  Put(AddDescription(g2, page.description), PageBreak)

AddSummaryPage(g, page) ==
    LET t == IF TruthyS(page.title) THEN page.title ELSE "Summary"
        g1 == Put(Say(g, <<>>, t, "h1"), Spacer("0.2"))
        g2 == IF TruthyL(page.key_points)
              THEN SayAll(g1, <<BulletGlyph>>, page.key_points.val, "bullet") ELSE g1
        g3 == IF TruthyS(page.conclusion)
              THEN Say(Put(g2, Spacer("0.3")), <<>>, page.conclusion, "body") ELSE g2
    IN  Put(g3, PageBreak)

RECURSIVE AddReferences(_, _, _, _)
AddReferences(g, refs, i, style) ==
    IF refs = <<>> THEN g
    ELSE LET g1 == CASE style = "numbered" ->
                          Say(g, Digits(i) \o <<". ">>, Head(refs), "body")
                     [] style = "bulleted" -> Say(g, <<BulletGlyph>>, Head(refs), "bullet")
                     [] OTHER -> Say(g, <<>>, Head(refs), "body")
         IN  AddReferences(g1, Tail(refs), i + 1, style)

\* enumerate(page.references) without its start of 1
AddReferencesPageFromZero(g, page) ==
    LET t == IF TruthyS(page.title) THEN page.title ELSE "References"
        g1 == Put(Say(g, <<>>, t, "h1"), Spacer("0.2"))
        g2 == IF TruthyL(page.references)
              THEN AddReferences(g1, page.references.val, 0, page.style) ELSE g1
    IN  Put(g2, PageBreak)

AddReferencesPage(g, page) ==
    LET t == IF TruthyS(page.title) THEN page.title ELSE "References"
        g1 == Put(Say(g, <<>>, t, "h1"), Spacer("0.2"))
        g2 == IF TruthyL(page.references)
              THEN AddReferences(g1, page.references.val, 1, page.style) ELSE g1
    IN  Put(g2, PageBreak)

\* an else branch that passes
IgnoreUnknownPageType(g, page) == g

\* raise ValueError(f"Unknown page type: {page.page_type}")
UnknownPageType(g, page) == [g EXCEPT !.raised = TRUE]

\* _generate_page: the dispatch on the page kind; outs holds the outcome of
\* the environment for each asset the page asks for.
GeneratePage(g, page, outs) ==
    CASE page.page_type = "title" -> AddTitlePage(g, page)
      [] page.page_type = "toc" -> AddTocPage(g, page)
      [] page.page_type = "section" -> AddSectionPage(g, page)
      [] page.page_type = "content" -> AddContentPage(g, page, outs)
      [] page.page_type = "code" -> AddCodePage(g, page)
      [] page.page_type = "diagram" -> AddDiagramPage(g, page, outs[1])
      [] page.page_type = "image" -> AddImagePage(g, page, outs[1])
      [] page.page_type = "mermaid" -> AddMermaidPage(g, page, outs[1])
      [] page.page_type = "summary" -> AddSummaryPage(g, page)
      [] page.page_type = "references" -> AddReferencesPage(g, page)
      [] OTHER -> UnknownPageType(g, page)
\* ------------------------------------------------------------- styles
\* _setup_styles: the style table, by role, read from the theme.
SetupStyles(th) ==
    [title |-> [fontSize |-> th.title_font_size, textColor |-> th.colors.primary,
                fontName |-> th.fonts.heading],
     subtitle |-> [fontSize |-> th.subtitle_font_size, textColor |-> th.colors.secondary,
                   fontName |-> th.fonts.body],
     h1 |-> [fontSize |-> th.h1_font_size, textColor |-> th.colors.primary,
             fontName |-> th.fonts.heading],
     h2 |-> [fontSize |-> th.h2_font_size, textColor |-> th.colors.secondary,
             fontName |-> th.fonts.heading],
     h3 |-> [fontSize |-> th.h3_font_size, textColor |-> th.colors.text,
             fontName |-> th.fonts.heading],
     body |-> [fontSize |-> th.body_font_size, textColor |-> th.colors.text,
               fontName |-> th.fonts.body],
     bullet |-> [fontSize |-> th.body_font_size, textColor |-> th.colors.text,
                 fontName |-> th.fonts.body],
     code |-> [fontSize |-> th.code_font_size, textColor |-> th.colors.text,
               fontName |-> th.fonts.code]]

\* ------------------------------------------------------------- output location
\* A directory of the environment is writable, readonly (it exists, a file
\* cannot be made in it), absent (mkdir makes it) or blocked (absent, mkdir
\* fails).
Dirs == {"/req", "/out", "/cwd", "output"}
\* Path.is_absolute: the path starts with "/"; "output" is what Path("./output")
\* is, a path relative to the working directory.
IsAbsolute(dir) == dir \in {"/req", "/out", "/cwd"}
DirStatus == {"writable", "readonly", "absent", "blocked"}
\* os.getenv('OUTPUT_DIR', ...), also the default of OutputSpec.directory
FallbackDir == "/out"

\* requested_dir without the write probe: an existing directory is taken
RequestedUsableNoProbe(st) == st # "blocked"

\* requested_dir: mkdir when it does not exist, then the write probe
\* (touch and unlink of .write_test); TRUE when neither raises.
RequestedUsable(st) == st \in {"writable", "absent"}
\* fallback_dir: mkdir when it does not exist; TRUE when it does not raise.
FallbackUsable(st) == st # "blocked"
\* the directory after an exists() / mkdir() that did not raise
AfterMkdir(st) == IF st = "absent" THEN "writable" ELSE st

\* ResolveOutputDir with the working directory as a last resort
ResolveOutputDirLastResort(requested_dir, fallback_dir, ds) ==
    IF RequestedUsable(ds[requested_dir])
    THEN [raised |-> FALSE, output_dir |-> requested_dir, directory_message |-> <<>>,
          dirs |-> [ds EXCEPT ![requested_dir] = "writable"]]
    ELSE IF FallbackUsable(ds[fallback_dir]) /\ ds[fallback_dir] # "readonly"
    THEN [raised |-> FALSE, output_dir |-> fallback_dir,
          directory_message |-> <<"Note: Saved to ", fallback_dir, " (requested directory ",
                                  requested_dir, " was not accessible)">>,
          dirs |-> [ds EXCEPT ![fallback_dir] = AfterMkdir(@)]]
    ELSE [raised |-> FALSE, output_dir |-> "/cwd",
          directory_message |-> <<"Note: Saved to ", "/cwd", " (requested directory ",
                                  requested_dir, " was not accessible)">>,
          dirs |-> ds]

\* generate_pdf, lines 62-100: the requested directory when it can be made
\* and written, else the fallback directory when it can be made, else
\* RuntimeError. ds is the status of the directories.
ResolveOutputDir(requested_dir, fallback_dir, ds) ==
    IF RequestedUsable(ds[requested_dir])
    THEN [raised |-> FALSE, output_dir |-> requested_dir, directory_message |-> <<>>,
          dirs |-> [ds EXCEPT ![requested_dir] = "writable"]]
    ELSE IF FallbackUsable(ds[fallback_dir])
    THEN [raised |-> FALSE, output_dir |-> fallback_dir,
          directory_message |-> <<"Note: Saved to ", fallback_dir, " (requested directory ",
                                  requested_dir, " was not accessible)">>,
          dirs |-> [ds EXCEPT ![fallback_dir] = AfterMkdir(@)]]
    ELSE [raised |-> TRUE, output_dir |-> None, directory_message |-> <<>>, dirs |-> ds]

\* ------------------------------------------------------------- file name
Alnum == {"A", "b", "7"}
IsAlnum(c) == c \in Alnum
Lower(c) == IF c = "A" THEN "a" ELSE c

\* SafeTitle that drops the characters it does not keep
SafeTitleDropping(title) ==
    LET kept == SelectSeq(title, LAMBDA c : IsAlnum(c) \/ c \in {" ", "-", "_"})
    IN  [i \in 1..Len(kept) |-> Lower(IF kept[i] = " " THEN "_" ELSE kept[i])]

\* "".join(c if c.isalnum() or c in (' ', '-', '_') else '_' for c in title)
\*   .replace(' ', '_').lower()
SafeTitle(title) ==
    [i \in 1..Len(title) |->
        LET c == title[i]
            kept == IF IsAlnum(c) \/ c \in {" ", "-", "_"} THEN c ELSE "_"
        IN  Lower(IF kept = " " THEN "_" ELSE kept)]

\* %H, %M, %S: two digits, zero-padded
Pad2(n) == IF n < 10 THEN <<"0">> \o Digits(n) ELSE Digits(n)
\* datetime.now().strftime("%Y%m%d_%H%M%S") of a clock that reads t seconds
\* after midnight of the day written "20240101".
Strftime(t) ==
    <<"20240101", "_">> \o Pad2(t \div 3600) \o Pad2((t \div 60) % 60) \o Pad2(t % 60)

AutoFilename(title, t) == SafeTitle(title) \o <<"_">> \o Strftime(t) \o <<".pdf">>

ResolveName(output, title, t) ==
    IF TruthyL(output.filename) THEN output.filename.val ELSE AutoFilename(title, t)
\* ------------------------------------------------------------- state
VARIABLES
    requests,           \* the calls in flight, in arrival order
    pc,                 \* where the run in progress stands
    caller,             \* who called generate_pdf: the tool handler or a library user
    doc_spec,           \* the DocumentSpec of the run in progress
    story,              \* PDFGenerator.story
    theme,              \* PDFGenerator.theme
    styles,             \* PDFGenerator.styles
    downloaded_images,  \* PDFGenerator.downloaded_images
    output_dir,         \* locals of generate_pdf
    directory_message,
    filename,
    pages_generated,
    dirs,               \* the file system: the status of each directory,
    files,              \* the output files written, each with the run that wrote it,
    tmp,                \* the temporary files on disk,
    next_tmp,           \* and the number of temporary files made so far
    now,                \* the last reading of the clock, in seconds
    result,             \* what the last call answered
    run,                \* the number of runs of generate_pdf started
    trace,              \* what the run in progress has done so far
    log                 \* what each finished run did

vars == <<requests, pc, caller, doc_spec, story, theme, styles, downloaded_images,
          output_dir, directory_message, filename, pages_generated, dirs, files, tmp,
          next_tmp, now, result, run, trace, log>>

generator == <<story, theme, styles, downloaded_images>>
locals == <<output_dir, directory_message, filename, pages_generated>>
disk == <<dirs, files, tmp, next_tmp>>

NoDoc == DocumentSpec(<<>>, ThemeSpec, <<>>, OutputSpec(NoneL, FallbackDir))
NoPath == [dir |-> None, name |-> <<>>]
NoResult == [kind |-> "none", ok |-> FALSE, output |-> NoPath, pages_generated |-> 0,
             filename |-> <<>>, message |-> <<>>, error |-> "", tool |-> "", keys |-> {}]
\* What a run has done: the pages handed to _generate_page and the one that
\* raised, what the environment gave for the assets of each page, the
\* temporary files recorded
\* and those cleanup went through, whether doc.build was called, the clock
\* reading of the file name, and what the run found when it started: the
\* story and temporary-asset list of the generator and the two directories.
NoTrace == [built |-> FALSE, dispatched |-> 0, raised_at |-> 0, outs |-> <<>>,
            recorded |-> {}, attempted |-> {}, stamp |-> -1,
            inherited_story |-> FALSE, inherited_assets |-> {},
            req_status |-> "", fb_status |-> ""]

\* ------------------------------------------------------------- results
\* SuccessResult that reports the index of the last page, counted from 0
SuccessResultLastIndex(path, n, fname, msg) ==
    [kind |-> "success", ok |-> TRUE, output |-> path, pages_generated |-> n - 1,
     filename |-> fname, message |-> msg, error |-> "", tool |-> "",
     keys |-> {"ok", "output", "pages_generated", "filename"}
              \cup (IF msg # <<>> THEN {"message"} ELSE {})]

\* The dictionary generate_pdf returns; the tool handler dumps it as JSON.
SuccessResult(path, n, fname, msg) ==
    [kind |-> "success", ok |-> TRUE, output |-> path, pages_generated |-> n,
     filename |-> fname, message |-> msg, error |-> "", tool |-> "",
     keys |-> {"ok", "output", "pages_generated", "filename"}
              \cup (IF msg # <<>> THEN {"message"} ELSE {})]

\* _generate_pdf's except branch; error is str(e)
FailurePayload ==
    [kind |-> "failure", ok |-> FALSE, output |-> NoPath, pages_generated |-> 0,
     filename |-> <<>>, message |-> <<>>, error |-> "str(e)", tool |-> "",
     keys |-> {"ok", "error", "output", "pages_generated"}]

\* handle_call_tool's except branch: the payload names the tool and has no
\* output key
ToolErrorPayload(name) ==
    [kind |-> "failure", ok |-> FALSE, output |-> NoPath, pages_generated |-> 0,
     filename |-> <<>>, message |-> <<>>, error |-> "str(e)", tool |-> name,
     keys |-> {"ok", "error", "tool"}]

\* An exception that leaves generate_pdf, as a library caller sees it.
Raised ==
    [kind |-> "raised", ok |-> FALSE, output |-> NoPath, pages_generated |-> 0,
     filename |-> <<>>, message |-> <<>>, error |-> "", tool |-> "", keys |-> {}]

\* ModelValidate without the min_length of pages
ModelValidateAnyLength(data) ==
    \A i \in 1..Len(data.pages) : data.pages[i].page_type \in PageType

\* DocumentSpec.model_validate: pages has min_length 1 and every page_type is
\* a PageType.
ModelValidate(data) ==
    /\ Len(data.pages) >= 1
    /\ \A i \in 1..Len(data.pages) : data.pages[i].page_type \in PageType
Range(q) == {q[i] : i \in 1..Len(q)}

\* str(e) of the ValidationError
ValidationError(data) ==
    IF Len(data.pages) < 1 THEN "pages: List should have at least 1 item"
    ELSE "page_type: Input should be 'title', 'toc', ..."

\* HandleImageField that takes every page for an image page
HandleImageFieldAnyKind(values) ==
    IF "image" \notin DOMAIN values THEN values
    ELSE LET image_value == values.image
             popped == [f \in DOMAIN values \ {"image"} |-> values[f]]
         IN  IF IsUrl(image_value) THEN [popped EXCEPT !.image_url = image_value]
             ELSE [popped EXCEPT !.image_path = image_value]

\* PageSpec.handle_image_field, the validator that runs before the fields
\* are read: the image key is popped and its value put in the url or path
\* field of the page kind.
HandleImageField(values) ==
    IF "image" \notin DOMAIN values THEN values
    ELSE LET image_value == values.image
             popped == [f \in DOMAIN values \ {"image"} |-> values[f]]
             is_url == IsUrl(image_value)
         IN  IF values.page_type = "diagram"
             THEN IF is_url THEN [popped EXCEPT !.diagram_url = image_value]
                  ELSE [popped EXCEPT !.diagram_path = image_value]
             ELSE IF is_url THEN [popped EXCEPT !.image_url = image_value]
                  ELSE [popped EXCEPT !.image_path = image_value]

\* pydantic's validation of a model from a dictionary: a field that is given
\* has the given value, a field that is not has its default; a key that names
\* no field is ignored.
Overlay(defaults, given) ==
    [f \in DOMAIN defaults |-> IF f \in DOMAIN given THEN given[f] ELSE defaults[f]]

\* ResolveTheme that takes a palette as given, the members it lacks unset
ResolveThemeWholeGroups(data) ==
    IF "theme" \notin DOMAIN data THEN ThemeSpec
    ELSE LET top == Overlay(ThemeSpec, data.theme)
             Whole(defaults, given) ==
                 [f \in DOMAIN defaults |-> IF f \in DOMAIN given THEN given[f] ELSE None]
         IN  [top EXCEPT
                 !.colors = IF "colors" \in DOMAIN data.theme
                            THEN Whole(ColorPalette, data.theme.colors) ELSE ColorPalette,
                 !.fonts = IF "fonts" \in DOMAIN data.theme
                           THEN Whole(FontPalette, data.theme.fonts) ELSE FontPalette]

\* the theme of a document: ThemeSpec() when none is given, the nested
\* palettes validated the same way
ResolveTheme(data) ==
    IF "theme" \notin DOMAIN data THEN ThemeSpec
    ELSE LET top == Overlay(ThemeSpec, data.theme)
         IN  [top EXCEPT
                 !.colors = IF "colors" \in DOMAIN data.theme
                            THEN Overlay(ColorPalette, data.theme.colors) ELSE ColorPalette,
                 !.fonts = IF "fonts" \in DOMAIN data.theme
                           THEN Overlay(FontPalette, data.theme.fonts) ELSE FontPalette]

\* DocumentSpec.model_validate(doc_spec_data) of data that passes validation
Validated(data) ==
    DocumentSpec(data.title, ResolveTheme(data),
                 [i \in 1..Len(data.pages) |-> HandleImageField(data.pages[i])],
                 data.output)

\* ------------------------------------------------------------- the end of a run
LogEntry(res, left, tr) ==
    [doc |-> doc_spec, dir |-> output_dir, filename |-> filename, result |-> res,
     left |-> left, trace |-> tr]

\* generate_pdf returns or raises: the caller gets res, and the locals of the
\* call are gone. st, dl, t and n are the story, the temporary-asset list, the
\* temporary files and their count as the run leaves them, tr what the run did.
EndRun(res, st, dl, t, n, tr) ==
    /\ result' = res
    /\ story' = st
    /\ downloaded_images' = dl
    /\ tmp' = t
    /\ next_tmp' = n
    /\ log' = Append(log, LogEntry(res, Range(dl), tr))
    /\ trace' = NoTrace
    /\ pc' = "idle"
    /\ caller' = "none"
    /\ doc_spec' = NoDoc
    /\ output_dir' = None
    /\ directory_message' = <<>>
    /\ filename' = <<>>
    /\ pages_generated' = 0

\* An exception leaves generate_pdf: _generate_pdf turns it into the failure
\* payload, a library caller sees it raised.
Abort(st, dl, t, n, tr) ==
    EndRun(IF caller = "server" THEN FailurePayload ELSE Raised, st, dl, t, n, tr)

\* generate_pdf, lines 56-60: the theme and the style table of the run.
Enter(doc, who) ==
    /\ doc_spec' = doc
    /\ theme' = doc.theme
    /\ styles' = SetupStyles(doc.theme)
    /\ caller' = who
    /\ pc' = "output"
    /\ run' = run + 1
    /\ result' = NoResult
    /\ trace' = [NoTrace EXCEPT !.inherited_story = (story # <<>>),
                                !.inherited_assets = Range(downloaded_images),
                                !.req_status = dirs[doc.output.directory],
                                !.fb_status = dirs[FallbackDir]]
    /\ UNCHANGED <<story, downloaded_images, locals, disk, now, log>>

\* ------------------------------------------------------------- actions
\* A library user calls PDFGenerator.generate_pdf(doc_spec).
CallGeneratePdf ==
    /\ pc = "idle"
    /\ requests # <<>>
    /\ Head(requests).via = "api"
    /\ requests' = Tail(requests)
    /\ Enter(Head(requests).doc, "api")

\* A handler that is entered while a run is in progress, as one that yields
\* to the event loop within the run would allow.
HandleCallToolReentrant ==
    /\ requests # <<>>
    /\ Head(requests).via = "tool"
    /\ requests' = Tail(requests)
    /\ LET call == Head(requests)
       IN  IF call.name = "generate_pdf" /\ call.has_doc /\ ModelValidate(call.doc)
           THEN Enter(Validated(call.doc), "server")
           ELSE /\ result' = IF call.name = "generate_pdf" /\ call.has_doc
                             THEN [FailurePayload EXCEPT !.error = ValidationError(call.doc)]
                             ELSE ToolErrorPayload(call.name)
                /\ UNCHANGED <<pc, caller, doc_spec, generator, locals, disk, now, run,
                               trace, log>>

\* handle_call_tool and _generate_pdf up to the call of generate_pdf.
HandleCallTool ==
    /\ pc = "idle"
    /\ requests # <<>>
    /\ Head(requests).via = "tool"
    /\ requests' = Tail(requests)
    /\ LET call == Head(requests)
       IN  IF call.name = "generate_pdf" /\ call.has_doc /\ ModelValidate(call.doc)
           THEN Enter(Validated(call.doc), "server")
           ELSE /\ result' = IF call.name = "generate_pdf" /\ call.has_doc
                             THEN [FailurePayload EXCEPT !.error = ValidationError(call.doc)]
                             ELSE ToolErrorPayload(call.name)
                /\ UNCHANGED <<pc, caller, doc_spec, generator, locals, disk, now, run,
                               trace, log>>

\* generate_pdf, lines 62-100: the output directory of the run.
SetupOutput ==
    /\ pc = "output"
    /\ LET r == ResolveOutputDir(doc_spec.output.directory, FallbackDir, dirs)
       IN  IF r.raised
           THEN /\ Abort(story, downloaded_images, tmp, next_tmp, trace)
                /\ UNCHANGED <<requests, theme, styles, dirs, files, now, run>>
           ELSE /\ dirs' = r.dirs
                /\ output_dir' = r.output_dir
                /\ directory_message' = r.directory_message
                /\ pc' = "filename"
                /\ UNCHANGED <<requests, caller, doc_spec, generator, filename,
                               pages_generated, files, tmp, next_tmp, now, result, run,
                               trace, log>>

\* A file name step without self.story = []
ResolveFilenameKeepingStory ==
    /\ pc = "filename"
    /\ \E t \in now..MaxClock :
          /\ now' = IF TruthyL(doc_spec.output.filename) THEN now ELSE t
          /\ filename' = ResolveName(doc_spec.output, doc_spec.title, now')
    /\ pages_generated' = 0
    /\ pc' = "pages"
    /\ trace' = [trace EXCEPT !.stamp = IF TruthyL(doc_spec.output.filename) THEN -1 ELSE now']
    /\ UNCHANGED <<requests, caller, doc_spec, story, theme, styles, downloaded_images,
                   output_dir, directory_message, disk, result, run, log>>

\* A file name step that stores the sanitised title back in the document.
ResolveFilenameNormalisingTitle ==
    /\ pc = "filename"
    /\ \E t \in now..MaxClock :
          /\ now' = IF TruthyL(doc_spec.output.filename) THEN now ELSE t
          /\ filename' = ResolveName(doc_spec.output, doc_spec.title, now')
    /\ doc_spec' = [doc_spec EXCEPT !.title = SafeTitle(@)]
    /\ story' = <<>>
    /\ pages_generated' = 0
    /\ pc' = "pages"
    /\ trace' = [trace EXCEPT !.stamp = IF TruthyL(doc_spec.output.filename) THEN -1 ELSE now']
    /\ UNCHANGED <<requests, caller, theme, styles, downloaded_images,
                   output_dir, directory_message, disk, result, run, log>>

\* generate_pdf, lines 102-126: the file name, the document template and the
\* reset of the story. The clock is read only for an auto-generated name.
ResolveFilename ==
    /\ pc = "filename"
    /\ \E t \in now..MaxClock :
          /\ now' = IF TruthyL(doc_spec.output.filename) THEN now ELSE t
          /\ filename' = ResolveName(doc_spec.output, doc_spec.title, now')
    /\ story' = <<>>
    /\ pages_generated' = 0
    /\ pc' = "pages"
    /\ trace' = [trace EXCEPT !.stamp = IF TruthyL(doc_spec.output.filename) THEN -1 ELSE now']
    /\ UNCHANGED <<requests, caller, doc_spec, theme, styles, downloaded_images,
                   output_dir, directory_message, disk, result, run, log>>
\* The outcomes the environment can give for one image reference: a download
\* works, fails, or fetches what is no image; a local file is an image or
\* not; a file that is not there has one outcome.
RefOutcomes(path) ==
    IF IsUrl(path) THEN {"ok", "fail", "bad_image"}
    ELSE IF path.rest \in LocalFiles THEN {"ok", "bad_image"}
    ELSE {"ok"}

ItemOutcomes(item) ==
    IF item.type = "image" /\ TruthyR(OrRef(item.image_path, item.image_url))
    THEN RefOutcomes(OrRef(item.image_path, item.image_url))
    ELSE {"ok"}

\* The outcomes the environment can give for the assets of a page: one per
\* content item of a content page, one for any other page.
AssetOutcomes(page) ==
    IF page.title = None THEN {<<"ok">>}
    ELSE IF page.page_type = "content" /\ TruthyL(page.content)
    THEN {o \in [1..Len(page.content.val) -> Outcomes] :
            \A i \in 1..Len(page.content.val) : o[i] \in ItemOutcomes(page.content.val[i])}
    ELSE IF page.page_type = "diagram" /\ TruthyR(OrRef(page.diagram_path, page.diagram_url))
    THEN [1..1 -> RefOutcomes(OrRef(page.diagram_path, page.diagram_url))]
    ELSE IF page.page_type = "image" /\ TruthyR(OrRef(page.image_path, page.image_url))
    THEN [1..1 -> RefOutcomes(OrRef(page.image_path, page.image_url))]
    ELSE IF page.page_type = "mermaid" /\ TruthyS(page.mermaid_code)
    THEN [1..1 -> Outcomes]
    ELSE {<<"ok">>}

\* an except block without the raise
Swallows(g) == FALSE

\* except Exception as e: logger.error(...); raise
Propagates(g) == g.raised

\* generate_pdf, lines 130-136: one turn of the loop over the pages. An
\* exception of the composer is logged and raised again.
ComposePage ==
    /\ pc = "pages"
    /\ pages_generated < Len(doc_spec.pages)
    /\ LET page == doc_spec.pages[pages_generated + 1]
       IN  \E outs \in AssetOutcomes(page) :
             LET g == GeneratePage([story |-> story, downloaded_images |-> downloaded_images,
                                    tmp |-> tmp, next_tmp |-> next_tmp, raised |-> FALSE],
                                   page, outs)
                 tr == [trace EXCEPT !.dispatched = @ + 1,
                                     !.raised_at = IF g.raised THEN pages_generated + 1 ELSE @,
                                     !.outs = Append(@, outs),
                                     !.recorded = @ \cup (Range(g.downloaded_images)
                                                          \ Range(downloaded_images))]
             IN  IF Propagates(g)
                 THEN /\ Abort(g.story, g.downloaded_images, g.tmp, g.next_tmp, tr)
                      /\ UNCHANGED <<requests, theme, styles, dirs, files, now, run>>
                 ELSE /\ story' = g.story
                      /\ downloaded_images' = g.downloaded_images
                      /\ tmp' = g.tmp
                      /\ next_tmp' = g.next_tmp
                      /\ pages_generated' = pages_generated + 1
                      /\ trace' = tr
                      /\ UNCHANGED <<requests, pc, caller, doc_spec, theme, styles,
                                     output_dir, directory_message, filename, dirs, files,
                                     now, result, run, log>>

\* _cleanup_downloaded_images: every recorded file is unlinked when it
\* exists, a failing unlink (the files of stuck) is logged; then the list is
\* cleared.
\* a cleanup whose first failing unlink raises out of the loop
CleanupDownloadedImagesStopping(dl, t, stuck) ==
    IF stuck = {} THEN [downloaded_images |-> <<>>, tmp |-> t \ Range(dl), attempted |-> Range(dl)]
    ELSE [downloaded_images |-> dl, tmp |-> t, attempted |-> {}]
CleanupDownloadedImages(dl, t, stuck) ==
    [downloaded_images |-> <<>>, tmp |-> t \ (Range(dl) \ stuck), attempted |-> Range(dl)]

\* doc.build writes the file when the layout succeeds and the directory
\* takes it.
BuildWrites(st, build_ok) == st = "writable" /\ build_ok

\* generate_pdf, lines 138-157: the layout backend builds the file, the
\* temporary files are cleaned up and the result is returned. The backend
\* takes the flowables off the story as it lays them out: all of them when it
\* succeeds, those before the k-th when it raises.
BuildPdf ==
    /\ pc = "pages"
    /\ pages_generated = Len(doc_spec.pages)
    /\ \E build_ok \in BOOLEAN, stuck \in SUBSET Range(downloaded_images),
          k \in 1..(Len(story) + 1) :
          LET output_path == [dir |-> output_dir, name |-> filename]
              c == CleanupDownloadedImages(downloaded_images, tmp, stuck)
          IN  IF BuildWrites(dirs[output_dir], build_ok)
              THEN /\ files' = {f \in files : f.path # output_path}
                                 \cup {[path |-> output_path, run |-> run]}
                   /\ k = Len(story) + 1
                   /\ EndRun(SuccessResult(output_path, pages_generated, filename,
                                           directory_message),
                             <<>>, c.downloaded_images, c.tmp, next_tmp,
                             [trace EXCEPT !.built = TRUE, !.attempted = c.attempted])
                   /\ UNCHANGED <<requests, theme, styles, dirs, now, run>>
              ELSE /\ stuck = {}
                   /\ Abort(SubSeq(story, k, Len(story)), downloaded_images, tmp, next_tmp,
                            [trace EXCEPT !.built = TRUE])
                   /\ UNCHANGED <<requests, theme, styles, dirs, files, now, run>>
\* ------------------------------------------------------------- inputs
TitlePage == [PageSpec("title") EXCEPT !.title = "T", !.subtitle = "S"]
UntitledPage == PageSpec("title")
TocPage == [PageSpec("toc") EXCEPT !.entries = SomeL(<<"e1", "e2">>)]
SectionPage == [PageSpec("section") EXCEPT !.title = "Sec"]
ContentPage ==
    [PageSpec("content") EXCEPT
        !.title = "Con",
        !.content = SomeL(<<[ContentItem EXCEPT !.text = "txt"],
                            [ContentItem EXCEPT !.type = "image", !.image_url = Url("u.png"),
                                                !.caption = "cap"]>>)]
CodePage == [PageSpec("code") EXCEPT !.title = "Cod", !.code = SomeL(<<"x", "\n", "y">>),
                                     !.line_numbers = TRUE]
DiagramPage == [PageSpec("diagram") EXCEPT !.title = "Dia", !.diagram_url = Url("d.png"),
                                           !.description = DescList(<<"d1", "d2">>)]
ImagePage == [PageSpec("image") EXCEPT !.title = "Img", !.image_path = LocalPath("ok.png"),
                                       !.caption = "cap"]
MissingImagePage == [PageSpec("image") EXCEPT !.title = "Mis",
                                              !.image_path = LocalPath("missing.png")]
MermaidPage == [PageSpec("mermaid") EXCEPT !.title = "Mer", !.mermaid_code = "graph TD",
                                           !.description = DescStr("d")]
SummaryPage == [PageSpec("summary") EXCEPT !.key_points = SomeL(<<"k1">>),
                                           !.conclusion = "end"]
ReferencesPage == [PageSpec("references") EXCEPT !.title = "Ref",
                                                 !.references = SomeL(<<"r1", "r2">>)]
\* a page whose kind was set past validation (model_construct, assignment)
BogusPage == PageSpec("bogus")

Pages == {TitlePage, UntitledPage, TocPage, SectionPage, ContentPage, CodePage, DiagramPage,
          ImagePage, MissingImagePage, MermaidPage, SummaryPage, ReferencesPage, BogusPage}

SeqsUpTo(S, n) == UNION {[1..m -> S] : m \in 0..n}

ExplicitName == <<"x", ".pdf">>
DocTitle == <<"A", " ", "b">>

ApiCall(d) == [via |-> "api", name |-> "generate_pdf", has_doc |-> TRUE, doc |-> d]
ToolCall(n, h, d) == [via |-> "tool", name |-> n, has_doc |-> h, doc |-> d]

\* The state after PDFGenerator.__init__ (and MCPPDFServer.__init__, which
\* makes the one generator of the server), with nothing on disk yet.
InitGenerator ==
    /\ pc = "idle"
    /\ caller = "none"
    /\ doc_spec = NoDoc
    /\ story = <<>>
    /\ theme = None
    /\ styles = <<>>
    /\ downloaded_images = <<>>
    /\ output_dir = None
    /\ directory_message = <<>>
    /\ filename = <<>>
    /\ pages_generated = 0
    /\ files = {}
    /\ tmp = {}
    /\ next_tmp = 0
    /\ now = 0
    /\ result = NoResult
    /\ run = 0
    /\ trace = NoTrace
    /\ log = <<>>

\* The directories of the environment, each in one of the states of sts; the
\* state of a directory that no call names is of no consequence and is left
\* writable.
InitDirs(sts) ==
    /\ dirs \in [Dirs -> sts]
    /\ \A d \in Dirs :
          (d # FallbackDir /\ \A i \in 1..Len(requests) : requests[i].doc.output.directory # d)
             => dirs[d] = "writable"

\* A library user with one document of up to MaxPages pages of any kind.
Docs == {DocumentSpec(DocTitle, ThemeSpec, ps, OutputSpec(SomeL(ExplicitName), "/req")) :
            ps \in SeqsUpTo(Pages, MaxPages) \ {<<>>}}

Init ==
    /\ requests \in {<<ApiCall(d)>> : d \in Docs}
    /\ InitGenerator
    /\ InitDirs({"writable", "readonly"})

Next == CallGeneratePdf \/ SetupOutput \/ ResolveFilename \/ ComposePage \/ BuildPdf

Spec == Init /\ [][Next]_vars

\* A library user with one short document, for every output specification
\* and every state of the two directories.
OutputDocs == {DocumentSpec(DocTitle, ThemeSpec, ps, OutputSpec(f, d)) :
                  ps \in {<<TitlePage>>, <<DiagramPage, SummaryPage>>},
                  f \in {NoneL, SomeL(<<>>), SomeL(ExplicitName)}, d \in Dirs}

InitOutput ==
    /\ requests \in {<<ApiCall(d)>> : d \in OutputDocs}
    /\ InitGenerator
    /\ InitDirs(DirStatus)

SpecOutput == InitOutput /\ [][Next]_vars

\* A library user with a one-page document, for every title of up to
\* MaxTitleLen characters and every file name setting.
TitleChars == {"A", "b", "7", " ", "-", "_", "."}
NameDocs == {DocumentSpec(t, ThemeSpec, <<TitlePage>>, OutputSpec(f, FallbackDir)) :
                t \in SeqsUpTo(TitleChars, MaxTitleLen),
                f \in {NoneL, SomeL(<<>>), SomeL(ExplicitName)}}

InitName ==
    /\ requests \in {<<ApiCall(d)>> : d \in NameDocs}
    /\ InitGenerator
    /\ InitDirs({"writable"})

SpecName == InitName /\ [][Next]_vars

\* The MCP server with up to MaxRuns tool calls in flight.
ShortDoc == DocumentSpec(DocTitle, ThemeSpec, <<TitlePage>>, OutputSpec(NoneL, FallbackDir))
AbortingDoc == DocumentSpec(DocTitle, AltTheme, <<DiagramPage, UntitledPage, SummaryPage>>,
                            OutputSpec(NoneL, FallbackDir))
AssetDoc == DocumentSpec(<<"b">>, ThemeSpec, <<MermaidPage, MissingImagePage>>,
                         OutputSpec(SomeL(ExplicitName), "/req"))
EmptyDoc == DocumentSpec(DocTitle, ThemeSpec, <<>>, OutputSpec(NoneL, FallbackDir))
BogusDoc == DocumentSpec(DocTitle, ThemeSpec, <<TitlePage, BogusPage>>,
                         OutputSpec(NoneL, FallbackDir))

ToolCalls == {ToolCall("generate_pdf", TRUE, d) :
                 d \in {ShortDoc, AbortingDoc, AssetDoc, EmptyDoc, BogusDoc}}
             \cup {ToolCall("generate_pdf", FALSE, NoDoc), ToolCall("list_pdfs", TRUE, ShortDoc)}

InitServer ==
    /\ requests \in SeqsUpTo(ToolCalls, MaxRuns) \ {<<>>}
    /\ InitGenerator
    /\ InitDirs({"writable"})

NextServer == HandleCallTool \/ SetupOutput \/ ResolveFilename \/ ComposePage \/ BuildPdf

SpecServer == InitServer /\ [][NextServer]_vars

\* The MCP server with one tool call whose document_spec is the dictionary
\* the client sent: pages with the image shorthand, themes given in part, no
\* page at all.
ShorthandValues == {Url("s.png"), [scheme |-> "http://", rest |-> "s.png", tmp |-> 0],
                    [scheme |-> "ftp://", rest |-> "s.png", tmp |-> 0], LocalPath("ok.png")}
ShorthandPages ==
    {[image |-> v] @@ [PageSpec(k) EXCEPT !.title = "P"] : k \in PageType, v \in ShorthandValues}
    \cup {[image |-> Url("s.png")] @@ ImagePage, [image |-> LocalPath("ok.png")] @@ DiagramPage}
GivenThemes ==
    {[colors |-> [primary |-> "#000000"]],
     [colors |-> [text |-> "#222222", code_bg |-> "#EEEEEE"], body_font_size |-> 11],
     [fonts |-> [code |-> "Courier-Bold"], logo_path |-> "logo.png"],
     [fonts |-> FontPalette, colors |-> [ColorPalette EXCEPT !.accent = "#333333"],
      page_width |-> 595, page_height |-> 842],
     [colour |-> "#000000"]}
GivenDocs ==
    {DocumentSpec(DocTitle, ThemeSpec, <<p>>, OutputSpec(SomeL(ExplicitName), "/req")) :
        p \in ShorthandPages}
    \cup {DocumentSpec(DocTitle, th, ps, OutputSpec(SomeL(ExplicitName), "/req")) :
            th \in GivenThemes, ps \in {<<>>, <<SummaryPage>>}}
    \cup {[title |-> DocTitle, pages |-> ps, output |-> OutputSpec(NoneL, FallbackDir)] :
            ps \in {<<>>, <<TocPage, SummaryPage>>}}

InitValidate ==
    /\ requests \in {<<ToolCall("generate_pdf", TRUE, d)>> : d \in GivenDocs}
    /\ InitGenerator
    /\ InitDirs({"writable", "absent"})

SpecValidate == InitValidate /\ [][NextServer]_vars

\* A library user with a one-page document of text only: a references page
\* of every style with up to MaxRefs references, or a code page of up to
\* MaxCodeLen characters with and without line numbers.
RefStyles == {"numbered", "bulleted", "plain", "roman"}
RefTexts == {"r1", "r2"}
CodeChars == {"x", "\n"}
ReferencePages ==
    {[PageSpec("references") EXCEPT !.references = r, !.style = st] :
        r \in {NoneL} \cup {SomeL(l) : l \in SeqsUpTo(RefTexts, MaxRefs)}, st \in RefStyles}
CodePages ==
    {[PageSpec("code") EXCEPT !.title = "Cod", !.code = SomeL(c), !.line_numbers = n] :
        c \in SeqsUpTo(CodeChars, MaxCodeLen), n \in BOOLEAN}
TextDocs == {DocumentSpec(DocTitle, ThemeSpec, <<pg>>, OutputSpec(SomeL(ExplicitName), "/req")) :
                pg \in ReferencePages \cup CodePages}

InitText ==
    /\ requests \in {<<ApiCall(d)>> : d \in TextDocs}
    /\ InitGenerator
    /\ InitDirs({"writable", "readonly"})

SpecText == InitText /\ [][Next]_vars

\* A library user with one content page of up to MaxItems content items: a
\* text, a text item without text and one with an empty text, bullets, code,
\* a table, a local image, and an item of a type the composer does not know.
ContentItems ==
    {[ContentItem EXCEPT !.text = "t1"],
     ContentItem,
     [ContentItem EXCEPT !.text = ""],
     [ContentItem EXCEPT !.type = "bullet", !.items = SomeL(<<"b1", "b2">>)],
     [ContentItem EXCEPT !.type = "code", !.code = SomeL(<<"x">>)],
     [ContentItem EXCEPT !.type = "table", !.table_data = SomeL(<<<<"c">>>>),
                         !.table_headers = SomeL(<<"h">>)],
     [ContentItem EXCEPT !.type = "image", !.image_path = LocalPath("ok.png"),
                         !.caption = "cap"],
     [ContentItem EXCEPT !.type = "quote", !.text = "q"]}
ContentDocs ==
    {DocumentSpec(DocTitle, ThemeSpec,
                  <<[PageSpec("content") EXCEPT !.title = "Con", !.content = c]>>,
                  OutputSpec(SomeL(ExplicitName), "/req")) :
        c \in {NoneL} \cup {SomeL(l) : l \in SeqsUpTo(ContentItems, MaxItems)}}

InitContent ==
    /\ requests \in {<<ApiCall(d)>> : d \in ContentDocs}
    /\ InitGenerator
    /\ InitDirs({"writable", "readonly"})

SpecContent == InitContent /\ [][Next]_vars

\* A library user with one page that shows an asset: a diagram or image page
\* or a content page with one image item, for every pairing of a path (none,
\* empty, a file that is there, one that is not) with a URL (none or given);
\* diagram, image and mermaid pages carry every description of up to MaxDesc
\* strings.
AssetPaths == {NoRef, LocalPath(""), LocalPath("ok.png"), LocalPath("missing.png")}
AssetUrls == {NoRef, Url("u.png")}
Descriptions ==
    {NoDesc, DescStr(""), DescStr("d")} \cup {DescList(l) : l \in SeqsUpTo({"d1", "d2"}, MaxDesc)}
AssetPages ==
    {[PageSpec("diagram") EXCEPT !.title = "Dia", !.diagram_path = p, !.diagram_url = u,
                                 !.description = d] :
        p \in AssetPaths, u \in AssetUrls, d \in Descriptions}
    \cup {[PageSpec("image") EXCEPT !.title = "Img", !.image_path = p, !.image_url = u,
                                    !.description = d] :
             p \in AssetPaths, u \in AssetUrls, d \in Descriptions}
    \cup {[PageSpec("mermaid") EXCEPT !.title = "Mer", !.mermaid_code = m, !.description = d] :
             m \in {None, "graph TD"}, d \in Descriptions}
    \cup {[PageSpec("content") EXCEPT
              !.title = "Con",
              !.content = SomeL(<<[ContentItem EXCEPT !.type = "image", !.image_path = p,
                                                      !.image_url = u]>>)] :
             p \in AssetPaths, u \in AssetUrls}
AssetDocs == {DocumentSpec(DocTitle, ThemeSpec, <<pg>>, OutputSpec(SomeL(ExplicitName), "/req")) :
                 pg \in AssetPages}

InitAssets ==
    /\ requests \in {<<ApiCall(d)>> : d \in AssetDocs}
    /\ InitGenerator
    /\ InitDirs({"writable"})

SpecAssets == InitAssets /\ [][Next]_vars
\* ============================================================= properties
\* The page breaks of a story, and its k-th segment: what lies after the
\* (k-1)-th page break, up to and including the k-th.
Breaks(st) == {i \in 1..Len(st) : st[i].p = "PageBreak"}
SegmentEnd(st, k) == CHOOSE i \in Breaks(st) : Cardinality({j \in Breaks(st) : j <= i}) = k
SegmentStart(st, k) == IF k = 1 THEN 1 ELSE SegmentEnd(st, k - 1) + 1
SegmentIndices(st, k) == SegmentStart(st, k)..SegmentEnd(st, k)

\* The heading a page shows: its title, or the default of its kind.
HeadingText(page) ==
    IF TruthyS(page.title) THEN page.title
    ELSE CASE page.page_type = "toc" -> "Table of Contents"
           [] page.page_type = "summary" -> "Summary"
           [] page.page_type = "references" -> "References"
           [] OTHER -> None
HeadingStyle(page) == IF page.page_type \in {"title", "section"} THEN "title" ELSE "h1"

\* C1: while generate_pdf composes, the story holds one page break per page
\* composed so far and ends with one, so it is the concatenation of one
\* segment per page, each with its only page break as last element; the
\* k-th segment shows the heading of the k-th page of the input.
C1_OnePageBreakPerPage ==
    pc = "pages" =>
        /\ Cardinality(Breaks(story)) = pages_generated
        /\ pages_generated > 0 => story[Len(story)].p = "PageBreak"
        /\ pages_generated = 0 => story = <<>>
        /\ \A k \in 1..pages_generated :
              \E j \in SegmentIndices(story, k) :
                 story[j] = Paragraph(<<HeadingText(doc_spec.pages[k])>>,
                                      HeadingStyle(doc_spec.pages[k]))

C1_Witness ==
    /\ pc = "pages"
    /\ pages_generated = Len(doc_spec.pages)
    /\ pages_generated >= 2
    /\ doc_spec.pages[1].page_type = "mermaid"
    /\ doc_spec.pages[2].page_type = "content"
    /\ trace.outs[1] = <<"timeout">>
    /\ Cardinality(Breaks(story)) = 2

\* C2: at the end of every run, returned or aborted, cleanup has gone
\* through every temporary file the run recorded and the temporary-asset list
\* is empty.
C2_TemporaryFilesDrained ==
    \A i \in 1..Len(log) :
        /\ log[i].left = {}
        /\ log[i].trace.recorded \subseteq log[i].trace.attempted

\* C3: a run answers ok only when every page was composed without an
\* exception and the backend built the file; a run in which the composer of
\* page k raised handed no later page to a composer, never called the
\* backend, wrote no file and answered the tool call with a failure payload.
C3_SuccessOnlyAfterEveryPage ==
    \A i \in 1..Len(log) :
        LET e == log[i]
        IN  /\ e.result.ok =>
                 /\ e.trace.raised_at = 0
                 /\ e.trace.dispatched = Len(e.doc.pages)
                 /\ e.trace.built
                 /\ \E f \in files : f.path = e.result.output
            /\ e.trace.raised_at > 0 =>
                 /\ e.trace.dispatched = e.trace.raised_at
                 /\ ~e.trace.built
                 /\ e.result = FailurePayload
                 /\ \A f \in files : f.run # i

C3_Witness ==
    \E i \in 1..Len(log) :
        /\ Len(log[i].doc.pages) = 3
        /\ log[i].trace.raised_at = 2
        /\ log[i].result.kind = "failure"

\* The image a page asks for as its i-th asset, NoRef when it asks for none.
RequestedImage(page, i) ==
    CASE page.page_type = "content" /\ TruthyL(page.content) ->
           IF page.content.val[i].type = "image"
           THEN OrRef(page.content.val[i].image_path, page.content.val[i].image_url)
           ELSE NoRef
      [] page.page_type = "diagram" -> OrRef(page.diagram_path, page.diagram_url)
      [] page.page_type = "image" -> OrRef(page.image_path, page.image_url)
      [] OTHER -> NoRef
AsksRender(page) == page.page_type = "mermaid" /\ TruthyS(page.mermaid_code)

\* The assets of a page that the environment did not deliver: a download
\* that failed, a local file that is not there, a file that is no image, a
\* render that failed, timed out or found no tool.
FailedAssets(page, outs) ==
    {i \in 1..Len(outs) :
        \/ /\ TruthyR(RequestedImage(page, i))
           /\ \/ IsUrl(RequestedImage(page, i)) /\ outs[i] = "fail"
              \/ ~IsUrl(RequestedImage(page, i)) /\ RequestedImage(page, i).rest \notin LocalFiles
              \/ outs[i] = "bad_image"
        \/ AsksRender(page) /\ outs[i] # "ok"}
DeliveredAssets(page, outs) ==
    {i \in 1..Len(outs) : TruthyR(RequestedImage(page, i)) \/ AsksRender(page)}
        \ FailedAssets(page, outs)

Placeholder(prim) ==
    /\ prim.p = "Paragraph"
    /\ prim.text # <<>>
    /\ prim.text[1] \in {"[Failed to download image from: ", "[Image not found: ",
                         "[Error loading image: ", "[Failed to render Mermaid diagram. "}

\* A page whose composer raises whatever the environment does: it has no
\* heading to show, or its kind is none of the ten.
RaisingPage(page) == page.page_type \notin PageType \/ HeadingText(page) = None

\* C4: an asset that is not delivered puts exactly one placeholder paragraph
\* where the image would stand and raises nothing: the segment of the page
\* holds one placeholder per failed asset and one image per delivered asset
\* and ends with its page break, and composition goes on with the next page.
\* No run is aborted by an asset: the page that raises is one that raises
\* whatever the environment does, a run without such a page composes every
\* page and reaches the layout backend, and answers ok once the backend has
\* written the file.
C4_AssetFailureYieldsPlaceholder ==
    /\ pc = "pages" =>
          \A k \in 1..pages_generated :
             LET seg == SegmentIndices(story, k)
                 page == doc_spec.pages[k]
             IN  /\ k <= Cardinality(Breaks(story))
                 /\ Cardinality({j \in seg : Placeholder(story[j])})
                       = Cardinality(FailedAssets(page, trace.outs[k]))
                 /\ Cardinality({j \in seg : story[j].p = "Image"})
                       = Cardinality(DeliveredAssets(page, trace.outs[k]))
                 /\ story[SegmentEnd(story, k)] = PageBreak
    /\ \A i \in 1..Len(log) :
          LET e == log[i]
          IN  /\ e.trace.raised_at > 0 => RaisingPage(e.doc.pages[e.trace.raised_at])
              /\ (\A k \in 1..Len(e.doc.pages) : ~RaisingPage(e.doc.pages[k]))
                    => \/ e.trace.dispatched = Len(e.doc.pages)
                       \/ e.trace.dispatched = 0 /\ ~e.trace.built /\ ~e.result.ok
              /\ (e.trace.dispatched = Len(e.doc.pages) /\ e.trace.raised_at = 0)
                    => e.trace.built
              /\ (e.trace.built /\ \E f \in files : f.run = i) => e.result.ok

C4_Witness ==
    \E i \in 1..Len(log) :
        /\ Len(log[i].doc.pages) = 2
        /\ FailedAssets(log[i].doc.pages[1], log[i].trace.outs[1]) # {}
        /\ log[i].trace.dispatched = 2
        /\ log[i].result.ok

\* The pages of a document whose kind is none of the ten.
UnknownPages(doc) == {k \in 1..Len(doc.pages) : doc.pages[k].page_type \notin PageType}

\* C5: a run over a document with a page of an unknown kind, wherever the
\* page stands, never calls the layout backend, answers no success and writes
\* no file; when the pages before it compose, the dispatch of the page itself
\* is what raises.
C5_UnknownKindAborts ==
    \A i \in 1..Len(log) :
        LET e == log[i]
        IN  UnknownPages(e.doc) # {} =>
               /\ ~e.trace.built
               /\ ~e.result.ok
               /\ \A f \in files : f.run # i
               /\ e.trace.raised_at > 0
               /\ \A k \in UnknownPages(e.doc) :
                     /\ e.trace.dispatched <= k
                     /\ e.trace.dispatched = k => e.trace.raised_at = k

C5_Witness ==
    \E i \in 1..Len(log) :
        /\ UnknownPages(log[i].doc) = {2}
        /\ log[i].doc.pages[1].page_type = "content"
        /\ log[i].trace.raised_at = 2
        /\ files = {}

\* C6 as stated: every run served by the server starts on a generator that
\* holds nothing of an earlier request: an empty story and an empty
\* temporary-asset list.
C6_RequestsShareNothing ==
    /\ \A i \in 1..Len(log) :
          /\ ~log[i].trace.inherited_story
          /\ log[i].trace.inherited_assets = {}
    /\ pc # "idle" => ~trace.inherited_story /\ trace.inherited_assets = {}

\* A directory that exists or can be created, and takes a new file.
CanBeWritten(st) == st \notin {"readonly", "blocked"}

\* C7: the run writes to the requested directory exactly when that directory
\* exists or can be created and takes the probe file, and to the fallback
\* directory otherwise; a success result carries a message, a non-empty one,
\* exactly when the fallback directory was used.
C7_FallbackExactlyWhenUnusable ==
    /\ pc \in {"filename", "pages"} =>
          IF CanBeWritten(trace.req_status)
          THEN output_dir = doc_spec.output.directory /\ directory_message = <<>>
          ELSE output_dir = FallbackDir /\ directory_message # <<>>
    /\ \A i \in 1..Len(log) :
          LET e == log[i]
          IN  e.result.ok =>
                 /\ e.result.output.dir = IF CanBeWritten(e.trace.req_status)
                                          THEN e.doc.output.directory ELSE FallbackDir
                 /\ \E f \in files : f.path = e.result.output /\ f.run = i
                 /\ "message" \in e.result.keys <=> ~CanBeWritten(e.trace.req_status)
                 /\ "message" \in e.result.keys <=> e.result.message # <<>>

C7_Witness ==
    \E i \in 1..Len(log) :
        /\ log[i].result.ok
        /\ log[i].trace.req_status = "readonly"
        /\ log[i].doc.output.directory = "/req"
        /\ log[i].result.output.dir = FallbackDir
        /\ "message" \in log[i].result.keys

\* C8: a run that finds the requested directory unusable and the fallback
\* directory impossible to create or to write ends with an exception: it
\* answers no success, writes no file, and resolves no directory but the
\* fallback; when the fallback cannot be created, no page is composed.
C8_BothUnusableIsFatal ==
    \A i \in 1..Len(log) :
        LET e == log[i]
        IN  (~CanBeWritten(e.trace.req_status) /\ ~CanBeWritten(e.trace.fb_status)) =>
               /\ e.result.kind = "raised"
               /\ ~e.result.ok
               /\ \A f \in files : f.run # i
               /\ e.dir \in {None, FallbackDir}
               /\ e.trace.fb_status = "blocked" =>
                     e.dir = None /\ e.trace.dispatched = 0 /\ ~e.trace.built

C8_Witness ==
    \E i \in 1..Len(log) :
        /\ log[i].doc.output.directory = "/req"
        /\ log[i].trace.req_status = "readonly"
        /\ log[i].trace.fb_status = "blocked"
        /\ log[i].result.kind = "raised"
        /\ log[i].trace.dispatched = 0

\* The runs of the log that named their file themselves.
AutoNamed(e) == ~TruthyL(e.doc.output.filename) /\ e.trace.stamp >= 0

\* C9 as stated: two runs with the same title, no explicit file name and
\* the same output directory get different file names, and the file of the
\* earlier run is still there after the later one.
C9_AutoNamesNeverCollide ==
    \A i, j \in 1..Len(log) :
        (/\ i < j
         /\ AutoNamed(log[i]) /\ AutoNamed(log[j])
         /\ log[i].doc.title = log[j].doc.title
         /\ log[i].dir = log[j].dir)
          => /\ log[i].filename # log[j].filename
             /\ (log[i].result.ok /\ log[j].result.ok) => \E f \in files : f.run = i

\* What the file name keeps of a character of the title.
NameChar(c) ==
    CASE c = "A" -> "a"
      [] c \in {"b", "7", "-", "_"} -> c
      [] OTHER -> "_"
RECURSIVE NameStem(_)
NameStem(title) == IF title = <<>> THEN <<>> ELSE <<NameChar(Head(title))>> \o NameStem(Tail(title))
RECURSIVE KeptOnly(_)
KeptOnly(title) ==
    IF title = <<>> THEN <<>>
    ELSE (IF Head(title) \in {"A", "b", "7", " ", "-", "_"}
          THEN <<NameChar(Head(title))>> ELSE <<>>) \o KeptOnly(Tail(title))

\* C10: a file name that is set and not empty is the file name of the run;
\* otherwise the file name is the title, each character that is no
\* alphanumeric, hyphen or underscore replaced by an underscore (a space
\* too) and lower-cased, then an underscore, the timestamp to the second and
\* ".pdf". A success result carries that file name.
C10_FilenameResolution ==
    /\ pc = "pages" =>
          /\ filename = IF doc_spec.output.filename.some /\ doc_spec.output.filename.val # <<>>
                        THEN doc_spec.output.filename.val
                        ELSE NameStem(doc_spec.title) \o <<"_">> \o Strftime(trace.stamp)
                                \o <<".pdf">>
          /\ AutoNamed([doc |-> doc_spec, trace |-> trace]) =>
                Len(filename) = Len(doc_spec.title) + 10
    /\ \A i \in 1..Len(log) :
          log[i].result.ok => /\ log[i].result.filename = log[i].filename
                              /\ log[i].result.output.name = log[i].filename

C10_Witness ==
    /\ pc = "pages"
    /\ doc_spec.title = <<"A", ".">>
    /\ ~doc_spec.output.filename.some
    /\ filename = <<"a", "_", "_", "20240101", "_", "0", "0", "0", "0", "0", "1", ".pdf">>

\* C10 as stated: a file name that is set is the file name of the run;
\* otherwise the file name is made of the characters of the title that are
\* alphanumerics, spaces, hyphens or underscores, and of no other.
C10_OnlyKeptCharacters ==
    pc = "pages" =>
        filename = IF doc_spec.output.filename.some
                   THEN doc_spec.output.filename.val
                   ELSE KeptOnly(doc_spec.title) \o <<"_">> \o Strftime(trace.stamp)
                           \o <<".pdf">>

\* C11 as stated: every success result has an absolute path as output, with
\* the resolved file name as its last part, and carries the number of pages
\* composed and the resolved file name.
C11_OutputIsAbsolute ==
    \A i \in 1..Len(log) :
        LET e == log[i]
        IN  e.result.ok =>
               /\ IsAbsolute(e.result.output.dir)
               /\ e.result.output.name = e.filename
               /\ e.result.filename = e.filename
               /\ e.result.pages_generated = e.trace.dispatched
               /\ {"output", "pages_generated", "filename"} \subseteq e.result.keys

\* C12 as stated: every failing generate_pdf tool call answers with a
\* payload that has ok = false, an error description and an output key
\* holding null.
C12_FailurePayloadShape ==
    (result.kind = "failure" /\ result.tool \in {"", "generate_pdf"}) =>
        /\ ~result.ok
        /\ {"ok", "error", "output"} \subseteq result.keys
        /\ result.output = NoPath

\* C13: a run of generate_pdf that returns, rather than raises, returns
\* ok = true and the number of pages of the document as pages_generated; a
\* library caller sees nothing but such a result or an exception. Runs in
\* which an asset was not delivered are among them.
C13_ReturnMeansEveryPage ==
    \A i \in 1..Len(log) :
        LET e == log[i]
        IN  /\ e.result.kind \in {"success", "raised"}
            /\ e.result.kind = "success" =>
                  /\ e.result.ok
                  /\ "ok" \in e.result.keys
                  /\ e.result.pages_generated = Len(e.doc.pages)

C13_Witness ==
    \E i \in 1..Len(log) :
        /\ log[i].result.kind = "success"
        /\ log[i].result.pages_generated = 2
        /\ log[i].doc.pages[1].page_type = "image"
        /\ log[i].doc.pages[2].page_type = "mermaid"
        /\ FailedAssets(log[i].doc.pages[1], log[i].trace.outs[1]) # {}
        /\ FailedAssets(log[i].doc.pages[2], log[i].trace.outs[2]) # {}

\* The step in which the tool handler validates the document of a call and
\* enters generate_pdf with it.
ValidatesAndEnters == pc = "idle" /\ pc' = "output"
HttpScheme(v) == v.scheme = "http://" \/ v.scheme = "https://"
ShorthandTarget(raw) ==
    IF raw.page_type = "diagram"
    THEN (IF HttpScheme(raw.image) THEN "diagram_url" ELSE "diagram_path")
    ELSE (IF HttpScheme(raw.image) THEN "image_url" ELSE "image_path")

\* C14: validation puts the image value of a page in diagram_url or
\* diagram_path when the page is a diagram page, in image_url or image_path
\* when it is of any other kind, the url field when the value starts with
\* http:// or https://; every other field keeps what the input gave (unset
\* when it gave nothing), and the validated page has no image field.
C14_ImageShorthand ==
    [][ValidatesAndEnters =>
          /\ Len(doc_spec'.pages) = Len(Head(requests).doc.pages)
          /\ \A k \in 1..Len(doc_spec'.pages) :
                LET raw == Head(requests).doc.pages[k]
                    page == doc_spec'.pages[k]
                IN  IF "image" \in DOMAIN raw
                    THEN /\ DOMAIN page = DOMAIN raw \ {"image"}
                         /\ page[ShorthandTarget(raw)] = raw.image
                         /\ \A f \in DOMAIN page \ {ShorthandTarget(raw)} : page[f] = raw[f]
                    ELSE page = raw]_vars

C14_Witness ==
    /\ pc = "output"
    /\ caller = "server"
    /\ doc_spec.pages[1].page_type = "diagram"
    /\ doc_spec.pages[1].diagram_url = Url("s.png")
    /\ doc_spec.pages[1].diagram_path = NoRef
    /\ doc_spec.pages[1].image_url = NoRef
    /\ doc_spec.pages[1].image_path = NoRef
    /\ "image" \notin DOMAIN doc_spec.pages[1]

\* What the client gave for a group of theme fields: nothing when the
\* document has no theme, or the theme no such group.
NothingGiven == [nothing |-> TRUE]
GivenTheme(data) == IF "theme" \in DOMAIN data THEN data.theme ELSE NothingGiven
GivenGroup(data, group) ==
    IF group \in DOMAIN GivenTheme(data) THEN GivenTheme(data)[group] ELSE NothingGiven
ExpectedField(defaults, given, f) == IF f \in DOMAIN given THEN given[f] ELSE defaults[f]
TextFields == {"line_spacing"}

\* C15: the theme a run composes with has, field by field and palette
\* member by palette member, the value the client gave or else the default;
\* no field but logo_path, whose default is None, is unset; a document
\* whose pages are valid enters generate_pdf whatever part of the theme it
\* gives.
C15_ThemeOverlay ==
    [][(pc = "idle" /\ requests # <<>> /\ requests' = Tail(requests)
           /\ Head(requests).name = "generate_pdf" /\ Head(requests).has_doc
           /\ Head(requests).doc.pages # <<>>) =>
          LET data == Head(requests).doc
          IN  /\ pc' = "output"
              /\ doc_spec'.theme = theme'
              /\ DOMAIN theme' = DOMAIN ThemeSpec
              /\ DOMAIN theme'.colors = DOMAIN ColorPalette
              /\ DOMAIN theme'.fonts = DOMAIN FontPalette
              /\ \A f \in DOMAIN ThemeSpec \ {"colors", "fonts"} :
                    theme'[f] = ExpectedField(ThemeSpec, GivenTheme(data), f)
              /\ \A c \in DOMAIN ColorPalette :
                    /\ theme'.colors[c] = ExpectedField(ColorPalette, GivenGroup(data, "colors"), c)
                    /\ theme'.colors[c] # None
              /\ \A c \in DOMAIN FontPalette :
                    /\ theme'.fonts[c] = ExpectedField(FontPalette, GivenGroup(data, "fonts"), c)
                    /\ theme'.fonts[c] # None
              /\ \A f \in TextFields : theme'[f] # None
              /\ \A f \in DOMAIN ThemeSpec \ ({"colors", "fonts", "logo_path"} \cup TextFields) :
                    theme'[f] \in Nat]_vars

C15_Witness ==
    /\ pc = "output"
    /\ caller = "server"
    /\ theme.colors.primary = "#000000"
    /\ theme.colors.secondary = "#1CCBD0"
    /\ theme.fonts = FontPalette
    /\ theme.logo_path = None
    /\ theme.title_font_size = 24

\* C15 as stated: no field of the theme is unset going into composition.
C15_NoFieldUnset ==
    pc # "idle" =>
        /\ theme.logo_path # None
        /\ \A c \in DOMAIN ColorPalette : theme.colors[c] # None
        /\ \A c \in DOMAIN FontPalette : theme.fonts[c] # None

\* C16: the tool call of a document without pages is answered by the failure
\* payload in the step that validates it: generate_pdf is not entered, no
\* directory is made or probed, no file is written and the generator is as
\* it was.
C16_EmptyPagesRejected ==
    [][(pc = "idle" /\ requests # <<>> /\ requests' = Tail(requests)
           /\ Head(requests).name = "generate_pdf" /\ Head(requests).has_doc
           /\ Head(requests).doc.pages = <<>>) =>
          /\ result'.kind = "failure"
          /\ ~result'.ok
          /\ result'.keys = {"ok", "error", "output", "pages_generated"}
          /\ pc' = "idle"
          /\ UNCHANGED <<run, log, trace, generator, locals, disk>>]_vars

C16_Witness ==
    /\ requests = <<>>
    /\ result.error = "pages: List should have at least 1 item"
    /\ result.kind = "failure"
    /\ run = 0
    /\ dirs["/req"] = "absent"
    /\ files = {}

\* C17 as stated: the composer of a page of one of the ten kinds never
\* raises, whichever of its optional fields are absent, the title included.
C17_AbsentFieldNeverRaises ==
    \A i \in 1..Len(log) :
        LET e == log[i]
        IN  e.trace.raised_at > 0 => e.doc.pages[e.trace.raised_at].page_type \notin PageType

\* ---------------------------------------------------------------- C18
\* The one page of the run, once composed, and its references.
ComposedPage == doc_spec.pages[1]
PageComposed(kind) ==
    /\ pc = "pages"
    /\ pages_generated = 1
    /\ ComposedPage.page_type = kind
GivenReferences ==
    IF ComposedPage.references.some THEN ComposedPage.references.val ELSE <<>>
ReferencePrefix(i) ==
    CASE ComposedPage.style = "numbered" -> <<DigitToken[i + 1], ". ">>
      [] ComposedPage.style = "bulleted" -> <<BulletGlyph>>
      [] OTHER -> <<>>

\* C18: a references page renders, between its heading and its page break,
\* exactly one paragraph per reference, in input order; the i-th (from 1) is
\* prefixed "i. " for style "numbered", the bullet glyph for "bulleted", and
\* nothing for any other style.
C18_ReferencesRendering ==
    PageComposed("references") =>
        /\ Len(story) = Len(GivenReferences) + 3
        /\ story[Len(story)].p = "PageBreak"
        /\ \A i \in 1..Len(GivenReferences) :
              /\ story[2 + i].p = "Paragraph"
              /\ story[2 + i].text = ReferencePrefix(i) \o <<GivenReferences[i]>>

C18_Witness ==
    /\ PageComposed("references")
    /\ ComposedPage.style = "numbered"
    /\ GivenReferences = <<"r2", "r1">>

\* ---------------------------------------------------------------- C19
\* The lines of a source: a line break ends a line, and text after the last
\* line break is one more line.
LineBreaks(s) == Cardinality({i \in 1..Len(s) : s[i] = "\n"})
SourceLines(s) == LineBreaks(s) + (IF s # <<>> /\ s[Len(s)] # "\n" THEN 1 ELSE 0)
NumberField(i) == PadLeft(<<DigitToken[i + 1]>>, 4)

\* C19 as stated: a numbered code block of a source of k lines shows exactly
\* k lines, the i-th starting with i right-aligned in 4 columns, also for a
\* source that ends with a line break; an unnumbered block shows the source
\* unchanged.
C19_OneOutputLinePerSourceLine ==
    (PageComposed("code") /\ TruthyL(ComposedPage.code)) =>
        LET source == ComposedPage.code.val
            block == story[3]
            out == Split(block.text, <<>>)
        IN  /\ block.p = "Preformatted"
            /\ IF ComposedPage.line_numbers
               THEN /\ Len(out) = SourceLines(source)
                    /\ \A i \in 1..Len(out) :
                          /\ Len(out[i]) >= 4
                          /\ SubSeq(out[i], 1, 4) = NumberField(i)
               ELSE block.text = source

\* ---------------------------------------------------------------- C20
\* C20: from the start of generate_pdf to its return or abort the document
\* and its theme keep the field values they had when the run started: the run
\* starts on the document of the call with that document's theme, no step of
\* the run changes either, and the run ends on the document it started on.
C20_InputsNeverMutated ==
    [][/\ (pc = "idle" /\ pc' # "idle") =>
             (doc_spec' = Head(requests).doc /\ theme' = doc_spec'.theme)
       /\ (pc # "idle" /\ pc' # "idle") =>
             (doc_spec' = doc_spec /\ theme' = doc_spec.theme)
       /\ (pc # "idle" /\ pc' = "idle") =>
             (log'[Len(log')].doc = doc_spec /\ theme' = doc_spec.theme)]_vars

C20_Witness ==
    /\ Len(log) = 1
    /\ log[1].result.ok
    /\ log[1].doc = DocumentSpec(DocTitle, ThemeSpec, <<ContentPage, CodePage>>,
                                 OutputSpec(SomeL(ExplicitName), "/req"))

\* ---------------------------------------------------------------- C21
\* The primitives one content item stands for: a paragraph for a text that
\* is there, nothing for a text item without text or an item of another
\* type than the five, and what the item gives on its own otherwise.
ItemTypes == {"text", "bullet", "image", "code", "table"}
BareGenerator ==
    [story |-> <<>>, downloaded_images |-> <<>>, tmp |-> {}, next_tmp |-> 0, raised |-> FALSE]
PrimitiveGroup(item, out) ==
    IF item.type \notin ItemTypes THEN <<>>
    ELSE IF item.type = "text"
    THEN (IF item.text \in {None, ""} THEN <<>> ELSE <<Paragraph(<<item.text>>, "body")>>)
    ELSE AddContentItem(BareGenerator, item, out).story
RECURSIVE GroupsInOrder(_, _)
GroupsInOrder(items, outs) ==
    IF items = <<>> THEN <<>>
    ELSE PrimitiveGroup(Head(items), Head(outs)) \o GroupsInOrder(Tail(items), Tail(outs))
GivenContent == IF ComposedPage.content.some THEN ComposedPage.content.val ELSE <<>>

\* C21: on a content page the primitives between heading and page break are
\* the groups of the content items, concatenated in input order; an item of
\* an unknown type and a text item without text give nothing, and neither
\* makes the composer raise.
C21_ContentItemsInOrder ==
    /\ PageComposed("content") =>
          story = <<Paragraph(<<ComposedPage.title>>, "h1"), Spacer("0.2")>>
                  \o GroupsInOrder(GivenContent, trace.outs[1])
                  \o <<PageBreak>>
    /\ \A i \in 1..Len(log) :
          (log[i].doc.pages[1].page_type = "content" /\ log[i].doc.pages[1].title # None)
             => log[i].trace.raised_at = 0

C21_Witness ==
    /\ PageComposed("content")
    /\ GivenContent = <<[ContentItem EXCEPT !.type = "quote", !.text = "q"],
                        [ContentItem EXCEPT !.text = "t1"]>>
    /\ Len(story) = 4

\* ---------------------------------------------------------------- C22, C23
\* A turn of the page loop in which the renderer ran on a mermaid page and
\* the rendering tool ended as out says; the temporary input and output files
\* the renderer made in that turn; what the caller shows for a failure.
RenderStep(out) ==
    /\ pc = "pages"
    /\ pc' = "pages"
    /\ pages_generated' = pages_generated + 1
    /\ doc_spec.pages[pages_generated'].page_type = "mermaid"
    /\ TruthyS(doc_spec.pages[pages_generated'].mermaid_code)
    /\ trace'.outs[Len(trace'.outs)] = <<out>>
InputFile == next_tmp + 1
OutputFile == next_tmp + 2
RenderFailureShown ==
    /\ \E j \in (Len(story) + 1)..Len(story') :
          /\ story'[j].p = "Paragraph"
          /\ story'[j].text[1] = "[Failed to render Mermaid diagram. "
    /\ \A j \in (Len(story) + 1)..Len(story') : story'[j].p # "Image"

\* C22 as stated: when the rendering tool times out the renderer reports
\* failure and its temporary input file is gone when it returns.
C22_TimeoutRemovesInput ==
    [][RenderStep("timeout") => (RenderFailureShown /\ InputFile \notin tmp')]_vars

\* C23: a rendering tool that exits non-zero makes the renderer return
\* failure, with its output file gone and not in the temporary-asset list; a
\* tool that exits zero makes it return the path of the output file, which
\* is then the last of the temporary-asset list; the input file is gone in
\* both cases.
C23_ExitCodeDecides ==
    [][/\ RenderStep("fail") =>
             /\ RenderFailureShown
             /\ OutputFile \notin tmp'
             /\ downloaded_images' = downloaded_images
             /\ InputFile \notin tmp'
       /\ RenderStep("ok") =>
             /\ \E j \in (Len(story) + 1)..Len(story') : story'[j] = Image(TmpPath(OutputFile))
             /\ downloaded_images' = Append(downloaded_images, OutputFile)
             /\ OutputFile \in tmp'
             /\ InputFile \notin tmp']_vars

C23_Witness ==
    /\ pc = "pages"
    /\ pages_generated = 1
    /\ doc_spec.pages[1].page_type = "mermaid"
    /\ trace.outs = <<<<"fail">>>>
    /\ tmp = {}
    /\ next_tmp = 2

\* ---------------------------------------------------------------- C24
\* C24: cleanup tries every recorded file, whichever deletions fail, never
\* raises to the caller, and leaves the temporary-asset list empty: the run
\* whose file was built answers ok, every recorded file was tried, only
\* recorded files are gone, and the list is empty.
C24_CleanupBestEffort ==
    [][(pc = "pages" /\ files' # files) =>
          /\ result'.ok
          /\ downloaded_images' = <<>>
          /\ log'[Len(log')].trace.attempted = Range(downloaded_images)
          /\ tmp' \subseteq tmp
          /\ (tmp \ tmp') \subseteq Range(downloaded_images)]_vars

C24_Witness ==
    /\ Len(log) = 1
    /\ log[1].result.ok
    /\ Cardinality(log[1].trace.attempted) = 2
    /\ Cardinality(log[1].trace.attempted \cap tmp) = 1
    /\ downloaded_images = <<>>

\* ---------------------------------------------------------------- C27
\* C27 as stated: between two turns of the page loop every temporary file on
\* disk is in the temporary-asset list: no helper has left a file it made
\* both on disk and untracked.
C27_NoUntrackedTemporaryFile ==
    pc = "pages" => tmp \subseteq Range(downloaded_images)

\* ---------------------------------------------------------------- C28
\* C28 as stated: a run that has resolved its output directory composes
\* pages only for a directory that takes the probe file.
C28_SelectedDirectoryWritable ==
    pc \in {"filename", "pages"} => dirs[output_dir] = "writable"

\* ---------------------------------------------------------------- C25
\* The path and the URL given for the asset of the composed page, and what
\* the story shows when a reference was resolved: the image itself or the
\* paragraph that stands for an image that is not there or does not load.
ShowsAsset == ComposedPage.page_type \in {"diagram", "image", "content"}
AssetPath ==
    CASE ComposedPage.page_type = "diagram" -> ComposedPage.diagram_path
      [] ComposedPage.page_type = "image" -> ComposedPage.image_path
      [] OTHER -> ComposedPage.content.val[1].image_path
AssetUrl ==
    CASE ComposedPage.page_type = "diagram" -> ComposedPage.diagram_url
      [] ComposedPage.page_type = "image" -> ComposedPage.image_url
      [] OTHER -> ComposedPage.content.val[1].image_url
Given(ref) == ref # NoRef
NonEmpty(ref) == Given(ref) /\ ref.rest # ""
ResolvedLocally(path) ==
    /\ next_tmp = 0
    /\ \E j \in 1..Len(story) :
          \/ story[j] = Image(path)
          \/ /\ story[j].p = "Paragraph"
             /\ story[j].text[1] \in {"[Image not found: ", "[Error loading image: "}
Downloaded == next_tmp = 1

\* C25: a page or image item with a non-empty path and a URL resolves the
\* path and downloads nothing; the URL is downloaded only when the path is
\* absent or empty.
C25_PathBeforeUrl ==
    (pc = "pages" /\ pages_generated = 1 /\ ShowsAsset) =>
        /\ (NonEmpty(AssetPath) /\ Given(AssetUrl)) => ResolvedLocally(AssetPath)
        /\ Downloaded => (~NonEmpty(AssetPath) /\ Given(AssetUrl))

C25_Witness ==
    /\ PageComposed("diagram")
    /\ AssetPath = LocalPath("ok.png")
    /\ AssetUrl = Url("u.png")
    /\ \E j \in 1..Len(story) : story[j] = Image(LocalPath("ok.png"))

\* C25 as stated: with both a path and a URL the path is resolved and the
\* URL never downloaded; the URL is used only when the path is absent.
C25_UrlOnlyWhenPathAbsent ==
    (pc = "pages" /\ pages_generated = 1 /\ ShowsAsset) =>
        /\ (Given(AssetPath) /\ Given(AssetUrl)) => ~Downloaded
        /\ Downloaded => ~Given(AssetPath)

\* ---------------------------------------------------------------- C26
\* The primitives of the composed page between its asset and its page break,
\* the asset being one primitive when the page has one.
RECURSIVE JoinLines(_)
JoinLines(l) == IF Len(l) = 1 THEN <<l[1]>> ELSE <<l[1], "\n">> \o JoinLines(Tail(l))
HasAsset ==
    CASE ComposedPage.page_type = "mermaid" -> ComposedPage.mermaid_code \notin {None, ""}
      [] OTHER -> NonEmpty(AssetPath) \/ NonEmpty(AssetUrl)
DescriptionPart == SubSeq(story, IF HasAsset THEN 4 ELSE 3, Len(story) - 1)
DescriptionParagraphs == SelectSeq(DescriptionPart, LAMBDA x : x.p = "Paragraph")
Bullets(l) == [i \in 1..Len(l) |-> Paragraph(<<BulletGlyph, l[i]>>, "bullet")]
Described == PageComposed("diagram") \/ PageComposed("image") \/ PageComposed("mermaid")

\* C26: on diagram and mermaid pages a description of k strings gives k
\* bullet paragraphs in input order and a non-empty string one body
\* paragraph; on image pages a non-empty description gives exactly one
\* paragraph, a sequence joined with line breaks; an absent or empty
\* description gives no primitive.
C26_DescriptionRendering ==
    Described =>
        LET d == ComposedPage.description
        IN  IF ~TruthyD(d) THEN DescriptionPart = <<>>
            ELSE IF ComposedPage.page_type = "image"
            THEN DescriptionParagraphs =
                    <<Paragraph(IF d.tag = "str" THEN <<d.str>> ELSE JoinLines(d.list), "body")>>
            ELSE IF d.tag = "list" THEN DescriptionParagraphs = Bullets(d.list)
            ELSE DescriptionParagraphs = <<Paragraph(<<d.str>>, "body")>>

C26_Witness ==
    /\ PageComposed("mermaid")
    /\ ComposedPage.description = DescList(<<"d2", "d1">>)
    /\ Len(DescriptionParagraphs) = 2

\* C26 as stated: a single string gives one body paragraph, a description on
\* an image page gives exactly one paragraph, a sequence of k strings on a
\* diagram or mermaid page gives k bullet paragraphs, and an absent
\* description gives no primitive.
C26_EveryDescriptionRendered ==
    Described =>
        LET d == ComposedPage.description
        IN  /\ d.tag = "none" => DescriptionPart = <<>>
            /\ (d.tag = "str" \/ (d.tag = "list" /\ ComposedPage.page_type = "image"))
                  => Len(DescriptionParagraphs) = 1
            /\ (d.tag = "list" /\ ComposedPage.page_type # "image")
                  => DescriptionParagraphs = Bullets(d.list)

\* ---------------------------------------------------------------- C29
\* What a generator that holds nothing composes for pages under the asset
\* outcomes outs, its temporary files being numbered from n0 on.
FreshGenerator(n0) ==
    [story |-> <<>>, downloaded_images |-> <<>>, tmp |-> {}, next_tmp |-> n0, raised |-> FALSE]
RECURSIVE ComposedFrom(_, _, _)
ComposedFrom(g, pages, outs) ==
    IF pages = <<>> THEN g
    ELSE ComposedFrom(GeneratePage(g, Head(pages), Head(outs)), Tail(pages), Tail(outs))

\* C29: on the one generator of the server the theme and style table of a
\* run are those of its own document, and the story it composes, up to the
\* one it hands to the layout backend, is what a generator that holds nothing
\* composes for the pages of that document: no primitive of an earlier run,
\* returned or aborted, is in it.
C29_StoryOfOwnDocumentOnly ==
    /\ pc # "idle" => (theme = doc_spec.theme /\ styles = SetupStyles(doc_spec.theme))
    /\ pc = "pages" =>
          \E n0 \in 0..next_tmp :
             ComposedFrom(FreshGenerator(n0), SubSeq(doc_spec.pages, 1, pages_generated),
                          trace.outs).story = story

C29_Witness ==
    /\ run = 2
    /\ Len(log) = 1
    /\ log[1].trace.raised_at = 2
    /\ trace.inherited_story
    /\ pc = "pages"
    /\ pages_generated = Len(doc_spec.pages)
    /\ doc_spec.pages = <<MermaidPage, MissingImagePage>>

\* ---------------------------------------------------------------- C30
\* C30: runs on the generator of the server never overlap: a run starts
\* only when no run is in progress and every earlier run has returned or
\* raised, and while a run is in progress no tool call is taken and no other
\* run starts, so every step on the story and the temporary-asset list
\* between the start and the end of a run is a step of that run.
C30_RunsNeverOverlap ==
    [][/\ run' # run => (pc = "idle" /\ run = Len(log) /\ run' = run + 1)
       /\ pc # "idle" => (requests' = requests /\ run' = run)
       /\ (pc # "idle" /\ pc' = "idle") => Len(log') = run]_vars

C30_Witness ==
    /\ run = 2
    /\ Len(log) = 1
    /\ pc = "pages"
    /\ pages_generated = 1
    /\ log[1].result.ok
    /\ doc_spec.pages = <<DiagramPage, UntitledPage, SummaryPage>>
====
